---- MODULE Spec2Model ----
(***************************************************************************)
(* Order-taking service: OrderService and PaymentService of                *)
(* src/src/services/services.py over the pydantic models of                *)
(* src/src/models/models.py.                                               *)
(*                                                                         *)
(* Money is exact fixed point: one currency unit is Scale model units, so  *)
(* that prices with three decimals and a tenth of them are integers.       *)
(* Strings whose length or characters are validated are sequences of      *)
(* one-character strings.  A dict is a sequence of <<key, value>> entries  *)
(* in insertion order.                                                     *)
(***************************************************************************)
EXTENDS Integers, Sequences, FiniteSets, TLC

VARIABLES
    orders,       \* OrderService.orders: dict order_id -> OrderResponse
    menu_items,   \* OrderService.menu_items: list of MenuItem
    last,         \* the last completed call: [op, arg, ret]
    inbox,        \* a request drawn at the start and not yet submitted
    threads       \* per request handler running cancel_order step by step

vars == <<orders, menu_items, last, inbox, threads>>

----------------------------------------------------------------------------
(* Bounds of the model *)

MaxSuffix == 2      \* distinct values of the 8-character uuid prefix
MaxThreads == 2     \* concurrent request handlers
MaxItems == 2       \* line items per generated request

----------------------------------------------------------------------------
(* Money *)

Scale == 100 * 100
Cent == Scale \div 100

Money(units, tenThousandths) == units * Scale + tenThousandths

Abs(x) == IF x < 0 THEN -x ELSE x

\* round(x, 2): the nearest multiple of a cent, a tie going to the even cent
round2(x) ==
    LET q == x \div Cent
        r == x % Cent
    IN  IF 2 * r < Cent THEN q * Cent
        ELSE IF 2 * r > Cent THEN (q + 1) * Cent
        ELSE IF q % 2 = 0 THEN q * Cent ELSE (q + 1) * Cent

----------------------------------------------------------------------------
(* Dicts in insertion order *)

Keys(d) == {d[i][1] : i \in 1..Len(d)}

IndexOf(d, k) == CHOOSE i \in 1..Len(d) : d[i][1] = k

Get(d, k) == d[IndexOf(d, k)][2]

Values(d) == [i \in 1..Len(d) |-> d[i][2]]

\* d[k] = v: a new key is appended, an existing key keeps its place
Put(d, k, v) ==
    IF k \in Keys(d)
    THEN [d EXCEPT ![IndexOf(d, k)] = <<k, v>>]
    ELSE Append(d, <<k, v>>)

----------------------------------------------------------------------------
(* models.py *)

\* Optional[...]: None, or a value
None == [none |-> TRUE]
Some(v) == [none |-> FALSE, v |-> v]

\* `not v` of an Optional[str]
Falsy(v) == v.none \/ v.v = <<>>

Digits == {"0", "1", "2", "3", "4", "5", "6", "7", "8", "9"}
PhoneChars == Digits \cup {" ", "-", "+", "(", ")"}

\* Field(..., min_length=lo, max_length=hi)
LengthOk(s, lo, hi) == Len(s) >= lo /\ Len(s) <= hi

\* the Field constraints without the upper limit on the quantity
OrderItem_valid_unlimited(it) ==
    /\ it.menu_item_id > 0
    /\ LengthOk(it.name, 2, 100)
    /\ it.quantity > 0
    /\ it.price > 0

\* class OrderItem: the Field constraints
OrderItem_valid(it) ==
    /\ it.menu_item_id > 0
    /\ LengthOk(it.name, 2, 100)
    /\ it.quantity > 0 /\ it.quantity <= 20
    /\ it.price > 0

\* validate_phone: ^[\d\s\-\+\(\)]{5,20}$
validate_phone(v) ==
    /\ Len(v) >= 5 /\ Len(v) <= 20
    /\ \A i \in 1..Len(v) : v[i] \in PhoneChars

\* validate_delivery_address(v, values): values holds the fields declared
\* before delivery_address (customer_name, customer_phone, items), so
\* values.get('is_delivery') is None; a None address skips the validator
validate_delivery_address(v, values) ==
    IF v.none THEN TRUE
    ELSE ~ ( (IF "is_delivery" \in DOMAIN values THEN values.is_delivery ELSE FALSE)
             /\ Falsy(v) )

\* validate_items: a non-empty list
validate_items(v) == v # <<>>

\* OrderRequest(**raw): every field constraint and validator
OrderRequest_valid(raw) ==
    /\ LengthOk(raw.customer_name, 2, 100)
    /\ LengthOk(raw.customer_phone, 5, 20)
    /\ validate_phone(raw.customer_phone)
    /\ \A i \in 1..Len(raw.items) : OrderItem_valid(raw.items[i])
    /\ validate_items(raw.items)
    /\ validate_delivery_address(raw.delivery_address,
            [customer_name |-> raw.customer_name,
             customer_phone |-> raw.customer_phone,
             items |-> raw.items])

\* class MenuItem, available defaulting to True
MenuItem(id, name, category, price, preparation_minutes) ==
    [id |-> id, name |-> name, category |-> category, price |-> price,
     available |-> TRUE, preparation_minutes |-> preparation_minutes]

----------------------------------------------------------------------------
(* OrderService.__init__ *)

delivery_fee == 200 * Scale
discount_threshold == 1000 * Scale
discount_percent == 10

name_101 == <<"M", "a", "r", "g">>
name_102 == <<"P", "e", "p", "p">>
name_201 == <<"C", "a", "e", "s">>
name_301 == <<"C", "o", "l", "a">>
name_302 == <<"L", "a", "t", "t", "e">>
name_401 == <<"T", "i", "r", "a">>

InitialMenu ==
    << MenuItem(101, name_101, "pizza", 650 * Scale, 25),
       MenuItem(102, name_102, "pizza", 750 * Scale, 25),
       MenuItem(201, name_201, "salad", 350 * Scale, 15),
       MenuItem(301, name_301, "drink", 150 * Scale, 5),
       MenuItem(302, name_302, "drink", 250 * Scale, 10),
       MenuItem(401, name_401, "dessert", 300 * Scale, 5) >>

----------------------------------------------------------------------------
(* OrderService: the helpers of create_order *)

\* _validate_menu_items: no ValueError is raised
validate_menu_items(menu, items) ==
    LET menu_item_ids == {menu[i].id : i \in 1..Len(menu)}
    IN  \A i \in 1..Len(items) : items[i].menu_item_id \in menu_item_ids

\* _calculate_items_total: sum(item.price * item.quantity for item in items)
RECURSIVE calculate_items_total(_)
calculate_items_total(items) ==
    IF items = <<>> THEN 0
    ELSE items[1].price * items[1].quantity + calculate_items_total(Tail(items))

\* the delivery fee charged by create_order
fee_of(is_delivery) == IF is_delivery THEN delivery_fee ELSE 0

\* a discount whose threshold is exclusive
calculate_discount_exclusive(subtotal) ==
    IF subtotal > discount_threshold
    THEN (subtotal * discount_percent) \div 100
    ELSE 0

\* _calculate_discount
calculate_discount(subtotal) ==
    IF subtotal >= discount_threshold
    THEN (subtotal * discount_percent) \div 100
    ELSE 0

\* next((m for m in menu_items if m.id == id), None): the first match
find_menu_item(menu, id) ==
    LET hits == {i \in 1..Len(menu) : menu[i].id = id}
    IN  IF hits = {} THEN None
        ELSE Some(menu[CHOOSE i \in hits : \A j \in hits : i <= j])

Max(a, b) == IF a >= b THEN a ELSE b

\* the preparation minutes added up instead of their maximum
RECURSIVE items_time_sum(_, _, _)
items_time_sum(menu, items, acc) ==
    IF items = <<>> THEN acc
    ELSE LET menu_item == find_menu_item(menu, items[1].menu_item_id)
         IN  items_time_sum(menu, Tail(items),
                            IF menu_item.none THEN acc
                            ELSE acc + menu_item.v.preparation_minutes)

\* the loop of _calculate_estimated_time over request.items
RECURSIVE items_time(_, _, _)
items_time(menu, items, acc) ==
    IF items = <<>> THEN acc
    ELSE LET m == find_menu_item(menu, items[1].menu_item_id)
         IN  items_time(menu, Tail(items),
                        IF m.none THEN acc ELSE Max(acc, m.v.preparation_minutes))

\* _calculate_estimated_time
calculate_estimated_time(menu, request) ==
    LET base_time == 15
        extra_items_time == Max(0, Len(request.items) - 1) * 5
        delivery_time == IF request.is_delivery THEN 25 ELSE 0
    IN  base_time + items_time(menu, request.items, 0) + extra_items_time
        + delivery_time

\* datetime.now().strftime("%Y%m%d"): the model covers one day
date_str == "20250101"

Suffixes == 1..MaxSuffix

\* _generate_order_id, for the uuid prefix drawn
generate_order_id(unique_str) == <<"ORD", date_str, unique_str>>

OrderIds == {generate_order_id(u) : u \in Suffixes}

\* datetime.utcnow(): the clock readings of the one day covered
Timestamps == {"t1"}

\* the OrderResponse built by create_order
OrderResponse(menu, request, order_id, created_at) ==
    LET items_total == calculate_items_total(request.items)
        subtotal == items_total + fee_of(request.is_delivery)
        discount == calculate_discount(subtotal)
        final_amount == subtotal - discount
    IN  [order_id |-> order_id,
         status |-> "created",
         total_amount |-> round2(subtotal),
         discount_amount |-> round2(discount),
         final_amount |-> round2(final_amount),
         estimated_minutes |-> calculate_estimated_time(menu, request),
         created_at |-> created_at,
         customer_name |-> request.customer_name,
         customer_phone |-> request.customer_phone,
         items |-> request.items,
         is_delivery |-> request.is_delivery,
         delivery_address |-> request.delivery_address,
         special_instructions |-> request.special_instructions]

----------------------------------------------------------------------------
(* Requests *)

OrderItem(menu_item_id, name, quantity, price) ==
    [menu_item_id |-> menu_item_id, name |-> name, quantity |-> quantity,
     price |-> price, modifiers |-> <<>>]

OrderRequest(customer_phone, items, is_delivery, delivery_address) ==
    [customer_name |-> <<"A", "n", "n">>,
     customer_phone |-> customer_phone,
     items |-> items,
     delivery_address |-> delivery_address,
     is_delivery |-> is_delivery,
     special_instructions |-> None]

phoneA == <<"1", "2", "3", "4", "5">>
phoneB == <<"+", "7", " ", "9", "0">>
phoneC == <<"5", "5", "5", "0", "0">>
Phones == {phoneA, phoneB, phoneC}

address == Some(<<"M", "a", "i", "n", " ", "1">>)

ReqPizza == OrderRequest(phoneA, <<OrderItem(101, name_101, 2, Money(650, 0))>>,
                         FALSE, None)
ReqDrinks ==
    OrderRequest(phoneB, <<OrderItem(301, name_301, 1, Money(150, 0)),
                           OrderItem(401, name_401, 3, Money(300, 0))>>,
                 TRUE, address)
ReqUnknownItem ==
    OrderRequest(phoneA, <<OrderItem(999, name_101, 1, Money(650, 0))>>,
                 FALSE, None)

\* the requests of the lifecycle specification
RawRequests == {ReqPizza, ReqDrinks, ReqUnknownItem}

\* the requests of the intake specification: every sequence of up to MaxItems
\* line items over these menu ids, quantities and unit prices (three
\* decimals at most), with and without delivery
MenuIdArgs == {101, 301}
Quantities == {1, 2}
PricePoints == {Money(400, 0), Money(650, 0), Money(999, 9800), Money(1000, 460)}

NameArg(id) == IF id = 301 THEN name_301 ELSE name_101

LineItems ==
    {OrderItem(id, NameArg(id), q, p) :
        id \in MenuIdArgs, q \in Quantities, p \in PricePoints}

ItemLists == UNION {[1..n -> LineItems] : n \in 0..MaxItems}

ReqLastUnknown ==
    OrderRequest(phoneB, <<OrderItem(101, name_101, 2, Money(650, 0)),
                           OrderItem(999, name_101, 1, Money(650, 0))>>,
                 FALSE, None)

\* requests at the edges of the field constraints and validators
ReqNoAddress ==
    OrderRequest(phoneA, <<OrderItem(101, name_101, 1, Money(650, 0))>>,
                 TRUE, None)
ReqEmptyAddress ==
    OrderRequest(phoneA, <<OrderItem(101, name_101, 1, Money(650, 0))>>,
                 TRUE, Some(<<>>))
ReqZeroQuantity ==
    OrderRequest(phoneA, <<OrderItem(101, name_101, 0, Money(650, 0))>>,
                 FALSE, None)
ReqTooMany ==
    OrderRequest(phoneA, <<OrderItem(101, name_101, 21, Money(650, 0))>>,
                 FALSE, None)
ReqZeroPrice ==
    OrderRequest(phoneA, <<OrderItem(101, name_101, 1, 0)>>, FALSE, None)
ReqWrongName ==
    OrderRequest(phoneA, <<OrderItem(101, name_102, 1, Money(650, 0))>>,
                 FALSE, None)

EdgeRequests ==
    {ReqUnknownItem, ReqLastUnknown, ReqNoAddress, ReqEmptyAddress,
     ReqZeroQuantity, ReqTooMany, ReqZeroPrice, ReqWrongName}

IntakeRequests ==
    {OrderRequest(phoneA, items, is_delivery,
                  IF is_delivery THEN address ELSE None) :
        items \in ItemLists, is_delivery \in BOOLEAN}
    \cup EdgeRequests

----------------------------------------------------------------------------
(* Request handlers in flight *)

Threads == 1..MaxThreads

\* an id no create_order call has returned
UnknownId == <<"ORD", date_str, 0>>

OrderIdArgs == OrderIds \cup {UnknownId}

Idle == [pc |-> "idle", order_id |-> UnknownId, called_on |-> "absent",
         ref |-> "none", stale |-> FALSE, ret |-> FALSE]

\* self.orders[order_id] = response replaces the object a handler may hold
Replaced(th, order_id) ==
    [t \in Threads |->
        IF th[t].pc # "idle" /\ th[t].order_id = order_id
        THEN [th[t] EXCEPT !.stale = TRUE,
                           !.ref = IF @ = "stored" THEN "dropped" ELSE @]
        ELSE th[t]]

----------------------------------------------------------------------------
(* create_order *)

Error(kind) == [error |-> kind]
IsError(ret) == "error" \in DOMAIN ret

\* the request is built (pydantic) and passes _validate_menu_items
Accepted(menu, raw) == OrderRequest_valid(raw) /\ validate_menu_items(menu, raw.items)

\* a hook that moves the new order on to 'processing'
schedule_status_updates_processing(d, order_id, total_minutes) ==
    [d EXCEPT ![IndexOf(d, order_id)][2].status = "processing"]

\* _schedule_status_updates: pass
schedule_status_updates(d, order_id, total_minutes) == d

\* a create_order that stores before it validates the menu ids
create_order_orders_unchecked(d, menu, raw, order_id, created_at) ==
    IF OrderRequest_valid(raw)
    THEN Put(d, order_id, OrderResponse(menu, raw, order_id, created_at))
    ELSE d

\* self.orders after create_order(OrderRequest(**raw))
create_order_orders(d, menu, raw, order_id, created_at) ==
    IF Accepted(menu, raw)
    THEN LET response == OrderResponse(menu, raw, order_id, created_at)
         IN  schedule_status_updates(Put(d, order_id, response), order_id,
                                     response.estimated_minutes)
    ELSE d

\* what create_order(OrderRequest(**raw)) returns or raises
create_order_ret(menu, raw, order_id, created_at) ==
    IF ~OrderRequest_valid(raw) THEN Error("ValidationError")
    ELSE IF ~validate_menu_items(menu, raw.items) THEN Error("ValueError")
    ELSE OrderResponse(menu, raw, order_id, created_at)

DoCreate(raw, unique_str, created_at) ==
    LET order_id == generate_order_id(unique_str)
    IN  /\ orders' = create_order_orders(orders, menu_items, raw, order_id, created_at)
        /\ last' = [op |-> "create_order", arg |-> raw,
                    ret |-> create_order_ret(menu_items, raw, order_id, created_at)]
        /\ threads' = IF Accepted(menu_items, raw)
                      THEN Replaced(threads, order_id) ELSE threads
        /\ UNCHANGED menu_items

CreateOrder ==
    /\ \E raw \in RawRequests, u \in Suffixes, ts \in Timestamps :
          DoCreate(raw, u, ts)
    /\ UNCHANGED inbox

\* the request drawn at the start is submitted
SubmitOrder ==
    /\ ~inbox.none
    /\ \E u \in Suffixes, ts \in Timestamps : DoCreate(inbox.v, u, ts)
    /\ inbox' = None

----------------------------------------------------------------------------
(* cancel_order, get_order_status, get_order_history *)

\* a status test that forgets the cancelled orders
cancellable_not_delivered(status) == status \in {"created", "processing", "cancelled"}

\* order.status in ["created", "processing"]
cancellable(status) == status \in {"created", "processing"}

\* the value cancel_order returns
cancel_order_ret(d, order_id) ==
    order_id \in Keys(d) /\ cancellable(Get(d, order_id).status)

\* a cancel that marks every stored order
SetCancelled_every(d, order_id) ==
    [i \in 1..Len(d) |-> <<d[i][1], [d[i][2] EXCEPT !.status = "cancelled"]>>]

\* order.status = "cancelled" on the stored object
SetCancelled(d, order_id) ==
    [d EXCEPT ![IndexOf(d, order_id)][2].status = "cancelled"]

\* self.orders after cancel_order
cancel_order_orders(d, order_id) ==
    IF cancel_order_ret(d, order_id) THEN SetCancelled(d, order_id) ELSE d

CancelOrder ==
    \E order_id \in OrderIdArgs :
        /\ orders' = cancel_order_orders(orders, order_id)
        /\ last' = [op |-> "cancel_order", arg |-> [order_id |-> order_id],
                    ret |-> [cancelled |-> cancel_order_ret(orders, order_id)]]
        /\ UNCHANGED <<menu_items, inbox, threads>>

\* a lookup that answers a missing id with a placeholder order
get_order_status_placeholder(d, order_id) ==
    IF order_id \in Keys(d) THEN Get(d, order_id)
    ELSE [order_id |-> order_id, status |-> "created"]

\* self.orders.get(order_id)
get_order_status(d, order_id) ==
    IF order_id \in Keys(d) THEN Get(d, order_id) ELSE None

GetOrderStatus ==
    \E order_id \in OrderIdArgs :
        /\ last' = [op |-> "get_order_status", arg |-> [order_id |-> order_id],
                    ret |-> get_order_status(orders, order_id)]
        /\ UNCHANGED <<orders, menu_items, inbox, threads>>

\* [order for order in self.orders.values() if order.customer_phone == phone]
phone_matches(order, customer_phone) == order.customer_phone = customer_phone

get_order_history(d, customer_phone) ==
    SelectSeq(Values(d), LAMBDA order : phone_matches(order, customer_phone))

GetOrderHistory ==
    \E customer_phone \in Phones :
        /\ last' = [op |-> "get_order_history",
                    arg |-> [customer_phone |-> customer_phone],
                    ret |-> [history |-> get_order_history(orders, customer_phone)]]
        /\ UNCHANGED <<orders, menu_items, inbox, threads>>

----------------------------------------------------------------------------
(* get_menu, process_payment *)

CategoryArgs == {None, Some(""), Some("pizza"), Some("drink"), Some("soup")}

\* `if category:` of an Optional[str]
category_given(category) == ~category.none /\ category.v # ""

\* the items get_menu returns: the category filter, then the available ones
get_menu_items(menu, category) ==
    LET items == IF category_given(category)
                 THEN SelectSeq(menu, LAMBDA item : item.category = category.v)
                 ELSE menu
    IN  SelectSeq(items, LAMBDA item : item.available)

\* the lists holding each element of S once
Orderings(S) ==
    {f \in [1..Cardinality(S) -> S] :
        \A i, j \in 1..Cardinality(S) : f[i] = f[j] => i = j}

\* a category list with one entry per returned item
get_menu_categories_per_item(available_items) ==
    {[i \in 1..Len(available_items) |-> available_items[i].category]}

\* list(set(item.category for item in available_items)): the order of a
\* set of strings is the hash seed's
get_menu_categories(available_items) ==
    Orderings({available_items[i].category : i \in 1..Len(available_items)})

\* the MenuResponses get_menu can return
get_menu(menu, category) ==
    LET available_items == get_menu_items(menu, category)
    IN  {[categories |-> categories, items |-> available_items] :
            categories \in get_menu_categories(available_items)}

DoGetMenu(category) ==
    \E response \in get_menu(menu_items, category) :
        /\ last' = [op |-> "get_menu", arg |-> category, ret |-> response]
        /\ UNCHANGED <<orders, menu_items, inbox, threads>>

\* the menu of one category is asked for between the calls on the orders
FilterArgs == {Some("pizza"), Some("drink"), Some("soup")}

GetMenu == \E category \in FilterArgs : DoGetMenu(category)

\* the menu is asked for with or without a category
BrowseMenu == \E category \in CategoryArgs : DoGetMenu(category)

Amounts == {0 - Money(1, 0), 0, Money(1170, 0)}

\* f"PAY-{uuid.uuid4().hex[:8].upper()}"
PaymentIds == {"PAY-A", "PAY-B"}

PaymentOrderIds == {generate_order_id(1), UnknownId}

\* a payment that succeeds for an amount of zero as well
process_payment_zero_accepted(payment_id, amount, payment_method, transaction_time) ==
    LET is_success == amount >= 0
    IN  IF is_success
        THEN [payment_id |-> payment_id, status |-> "success", amount |-> amount,
              payment_method |-> payment_method,
              transaction_time |-> transaction_time]
        ELSE [payment_id |-> payment_id, status |-> "failed",
              error |-> "Payment processing failed",
              transaction_time |-> transaction_time]

\* PaymentService.process_payment
process_payment(payment_id, amount, payment_method, transaction_time) ==
    LET is_success == amount > 0
    IN  IF is_success
        THEN [payment_id |-> payment_id, status |-> "success", amount |-> amount,
              payment_method |-> payment_method,
              transaction_time |-> transaction_time]
        ELSE [payment_id |-> payment_id, status |-> "failed",
              error |-> "Payment processing failed",
              transaction_time |-> transaction_time]

ProcessPayment ==
    \E order_id \in PaymentOrderIds, amount \in Amounts,
       payment_id \in PaymentIds, transaction_time \in Timestamps :
        /\ last' = [op |-> "process_payment",
                    arg |-> [order_id |-> order_id, amount |-> amount],
                    ret |-> process_payment(payment_id, amount, "card",
                                           transaction_time)]
        /\ UNCHANGED <<orders, menu_items, inbox, threads>>

----------------------------------------------------------------------------
(* The service called by one handler at a time *)

NoCall == [op |-> "none", arg |-> None, ret |-> None]

Init ==
    /\ orders = <<>>
    /\ menu_items = InitialMenu
    /\ last = NoCall
    /\ inbox = None
    /\ threads = [t \in Threads |-> Idle]

Next ==
    \/ CreateOrder
    \/ CancelOrder
    \/ GetOrderStatus
    \/ GetOrderHistory
    \/ GetMenu
    \/ ProcessPayment

Spec == Init /\ [][Next]_vars

----------------------------------------------------------------------------
(* Intake: one generated request goes through create_order *)

IntakeInit ==
    /\ orders = <<>>
    /\ menu_items = InitialMenu
    /\ last = NoCall
    /\ inbox \in {Some(raw) : raw \in IntakeRequests}
    /\ threads = [t \in Threads |-> Idle]

IntakeNext ==
    \/ SubmitOrder
    \/ CancelOrder

IntakeSpec == IntakeInit /\ [][IntakeNext]_vars

----------------------------------------------------------------------------
(* The menu: get_menu over every availability of the six catalog items *)

MenuStates ==
    {[i \in 1..Len(InitialMenu) |-> [InitialMenu[i] EXCEPT !.available = flags[i]]] :
        flags \in [1..Len(InitialMenu) -> BOOLEAN]}

MenuInit ==
    /\ orders = <<>>
    /\ menu_items \in MenuStates
    /\ last = NoCall
    /\ inbox = Some(ReqDrinks)
    /\ threads = [t \in Threads |-> Idle]

MenuNext ==
    \/ SubmitOrder
    \/ BrowseMenu

MenuSpec == MenuInit /\ [][MenuNext]_vars


----------------------------------------------------------------------------
(* Concurrent handlers: cancel_order runs as a check, then a write *)

StatusOf(d, order_id) ==
    IF order_id \in Keys(d) THEN Get(d, order_id).status ELSE "absent"

\* the call is made
CancelCall(t, order_id) ==
    /\ threads[t].pc = "idle"
    /\ threads' = [threads EXCEPT ![t] =
            [pc |-> "check", order_id |-> order_id,
             called_on |-> StatusOf(orders, order_id),
             ref |-> "none", stale |-> FALSE, ret |-> FALSE]]
    /\ UNCHANGED <<orders, menu_items, last, inbox>>

\* if order_id in self.orders: order = ...; if order.status in [...]
CancelCheck(t) ==
    /\ threads[t].pc = "check"
    /\ threads' = [threads EXCEPT ![t] =
            IF cancel_order_ret(orders, threads[t].order_id)
            THEN [@ EXCEPT !.pc = "write", !.ref = "stored"]
            ELSE [@ EXCEPT !.pc = "done", !.ret = FALSE]]
    /\ UNCHANGED <<orders, menu_items, last, inbox>>

\* order.status = "cancelled", on the object looked up by the check
CancelWrite(t) ==
    /\ threads[t].pc = "write"
    /\ orders' = IF threads[t].ref = "stored"
                 THEN SetCancelled(orders, threads[t].order_id)
                 ELSE orders
    /\ threads' = [threads EXCEPT ![t] = [@ EXCEPT !.pc = "done", !.ret = TRUE]]
    /\ UNCHANGED <<menu_items, last, inbox>>

\* return True / return False
CancelReturn(t) ==
    /\ threads[t].pc = "done"
    /\ last' = [op |-> "cancel_order", arg |-> [order_id |-> threads[t].order_id],
                ret |-> [cancelled |-> threads[t].ret]]
    /\ threads' = [threads EXCEPT ![t] = Idle]
    /\ UNCHANGED <<orders, menu_items, inbox>>

ConcRequests == {ReqPizza}

ConcCreateOrder ==
    /\ \E raw \in ConcRequests, u \in Suffixes, ts \in Timestamps :
          DoCreate(raw, u, ts)
    /\ UNCHANGED inbox

ConcNext ==
    \/ ConcCreateOrder
    \/ \E t \in Threads, order_id \in OrderIds : CancelCall(t, order_id)
    \/ \E t \in Threads : CancelCheck(t)
    \/ \E t \in Threads : CancelWrite(t)
    \/ \E t \in Threads : CancelReturn(t)

ConcSpec == Init /\ [][ConcNext]_vars


----------------------------------------------------------------------------
(* Properties *)

Stored(d) == {d[i][2] : i \in 1..Len(d)}

CatalogIds == {menu_items[i].id : i \in 1..Len(menu_items)}

LegalEdges ==
    { <<"created", "processing">>, <<"processing", "ready">>,
      <<"ready", "delivered">>, <<"created", "cancelled">>,
      <<"processing", "cancelled">> }

\* C2: every change of the status of the order stored under an id follows a
\* legal edge, and an order whose status is 'cancelled' or 'delivered' never
\* changes status again.
C2_LegalTransitions ==
    [][ \A k \in Keys(orders) :
          k \in Keys(orders') =>
            \/ Get(orders', k).status = Get(orders, k).status
            \/ <<Get(orders, k).status, Get(orders', k).status>> \in LegalEdges ]_vars

\* C3: a createOrder call that fails validation (a line item whose menu id
\* is not in the catalog) raises an error and leaves the order store exactly
\* as it was.
C3_FailedCreateLeavesStore ==
    [][ last'.op = "create_order" =>
          LET raw == last'.arg
              unknown == \E i \in 1..Len(raw.items) :
                            raw.items[i].menu_item_id \notin CatalogIds
          IN  /\ unknown => IsError(last'.ret)
              /\ IsError(last'.ret) => orders' = orders ]_vars

C3_Witness ==
    /\ last.op = "create_order"
    /\ last.arg = ReqUnknownItem
    /\ IsError(last.ret)
    /\ Len(orders) >= 1

\* C4: createOrder never replaces an existing order record: every successful
\* createOrder adds one order and leaves every stored record unchanged, so n
\* successful calls leave n distinct orders.
C4_CreateNeverReplaces ==
    [][ (last'.op = "create_order" /\ ~IsError(last'.ret)) =>
          /\ Len(orders') = Len(orders) + 1
          /\ \A i \in 1..Len(orders) : orders'[i] = orders[i] ]_vars

\* C5: the first cancel of a freshly created order returns true and leaves
\* it 'cancelled'; from then on the order stays 'cancelled' and every later
\* cancel of it returns false, whatever happens in between.
C5_CancelIdempotent ==
    [][ \A k \in Keys(orders) :
          /\ (Get(orders, k).status = "created"
                /\ last'.op = "cancel_order" /\ last'.arg.order_id = k)
             => (last'.ret.cancelled /\ StatusOf(orders', k) = "cancelled")
          /\ Get(orders, k).status = "cancelled"
             => /\ StatusOf(orders', k) = "cancelled"
                /\ (last'.op = "cancel_order" /\ last'.arg.order_id = k)
                      => ~last'.ret.cancelled ]_vars

\* C6: an id once stored stays in the store, and every field of the order
\* stored under it other than status keeps the value it had at creation.
C6_FieldsImmutable ==
    [][ \A k \in Keys(orders) :
          /\ k \in Keys(orders')
          /\ [Get(orders', k) EXCEPT !.status = "any"]
               = [Get(orders, k) EXCEPT !.status = "any"] ]_vars

\* C7: two cancel calls on the same order (status 'created' or 'processing')
\* that overlap behave as if serialized: exactly one returns true, the other
\* false, and the order ends 'cancelled'.
C7_ConcurrentCancelsSerialize ==
    \A t1, t2 \in Threads :
        ( /\ t1 # t2
          /\ threads[t1].pc = "done" /\ threads[t2].pc = "done"
          /\ threads[t1].order_id = threads[t2].order_id
          /\ threads[t1].called_on \in {"created", "processing"}
          /\ threads[t2].called_on \in {"created", "processing"}
          /\ ~threads[t1].stale /\ ~threads[t2].stale )
        => /\ threads[t1].ret # threads[t2].ret
           /\ StatusOf(orders, threads[t1].order_id) = "cancelled"

\* C8: every stored order has final_amount = total_amount - discount_amount
\* on its stored, rounded fields, where total_amount is the items total plus
\* the delivery fee (200.00 for a delivery), and discount_amount >= 0 and
\* final_amount >= 0.
C8_AmountsAddUp ==
    \A o \in Stored(orders) :
        /\ o.total_amount =
             round2(calculate_items_total(o.items)
                    + (IF o.is_delivery THEN 200 * Scale ELSE 0))
        /\ o.final_amount = o.total_amount - o.discount_amount
        /\ o.discount_amount >= 0
        /\ o.final_amount >= 0

\* C9: with subtotal = items total + delivery fee, the stored discount is 0
\* when subtotal < 1000.00 and is subtotal * 10 / 100 rounded to the nearest
\* cent when subtotal >= 1000.00; 2 x 650.00 gives 1300.00, 130.00, 1170.00
\* without delivery and 1500.00, 150.00, 1350.00 with delivery.
C9_Discount ==
    \A o \in Stored(orders) :
        LET subtotal == calculate_items_total(o.items)
                        + (IF o.is_delivery THEN 200 * Scale ELSE 0)
        IN  /\ subtotal < 1000 * Scale => o.discount_amount = 0
            /\ subtotal >= 1000 * Scale =>
                 /\ o.discount_amount % Cent = 0
                 /\ 2 * Abs(10 * o.discount_amount - subtotal) <= 10 * Cent
            /\ (Len(o.items) = 1 /\ o.items[1].quantity = 2
                  /\ o.items[1].price = 650 * Scale) =>
                 IF o.is_delivery
                 THEN /\ o.total_amount = 1500 * Scale
                      /\ o.discount_amount = 150 * Scale
                      /\ o.final_amount = 1350 * Scale
                 ELSE /\ o.total_amount = 1300 * Scale
                      /\ o.discount_amount = 130 * Scale
                      /\ o.final_amount = 1170 * Scale

\* an order at the threshold only because of the delivery fee
C9_Witness ==
    \E o \in Stored(orders) :
        /\ o.is_delivery
        /\ calculate_items_total(o.items) = 800 * Scale
        /\ o.discount_amount = 100 * Scale

RECURSIVE Without(_, _)
Without(ids, id) ==
    IF ids = <<>> THEN <<>>
    ELSE IF ids[1] = id THEN Without(Tail(ids), id)
    ELSE <<ids[1]>> \o Without(Tail(ids), id)

HistoryIds(d, phone) ==
    LET h == get_order_history(d, phone) IN [i \in 1..Len(h) |-> h[i].order_id]

\* C10: getOrderHistory(phone) returns exactly the stored orders with that
\* phone, in the order in which they were created: a created order comes
\* last in the history of its phone, and no other call reorders a history.
C10_HistoryInCreationOrder ==
    [][ \A phone \in Phones :
          /\ \A o \in Stored(orders') :
                o.customer_phone = phone <=>
                  \E i \in 1..Len(get_order_history(orders', phone)) :
                      get_order_history(orders', phone)[i] = o
          /\ IF last'.op = "create_order" /\ ~IsError(last'.ret)
             THEN LET new == last'.ret
                      rest == Without(HistoryIds(orders, phone), new.order_id)
                  IN  HistoryIds(orders', phone) =
                        IF new.customer_phone = phone
                        THEN Append(rest, new.order_id) ELSE rest
             ELSE HistoryIds(orders', phone) = HistoryIds(orders, phone) ]_vars

\* C11: a successful createOrder stores the new order with status 'created'
\* under the returned order id, so that getOrderStatus(id) right after it
\* returns that same order; getOrderStatus for an id no createOrder has
\* returned answers absent, never a default or placeholder order.
C11_CreateThenLookup ==
    [][ /\ (last'.op = "create_order" /\ ~IsError(last'.ret)) =>
              /\ last'.ret.status = "created"
              /\ last'.ret.order_id \in Keys(orders')
              /\ Get(orders', last'.ret.order_id) = last'.ret
        /\ last'.op = "get_order_status" =>
              IF last'.arg.order_id \in Keys(orders)
              THEN last'.ret = Get(orders, last'.arg.order_id)
              ELSE last'.ret = None ]_vars

\* the lookup of the order a second createOrder has just stored
C11_Witness ==
    /\ last.op = "get_order_status"
    /\ Len(orders) = 2
    /\ last.arg.order_id = orders[2][1]
    /\ last.ret = orders[2][2]
    /\ last.ret.status = "created"

\* C12: createOrder rejects with a validation error every request whose
\* delivery flag is true and whose delivery address is missing or empty, so
\* no order in the store has is_delivery = true without a delivery address.
C12_DeliveryNeedsAddress ==
    /\ (last.op = "create_order"
          /\ last.arg.is_delivery /\ Falsy(last.arg.delivery_address))
       => IsError(last.ret)
    /\ \A o \in Stored(orders) : o.is_delivery => ~Falsy(o.delivery_address)

WellFormedItems(items) ==
    /\ items # <<>>
    /\ \A i \in 1..Len(items) :
          /\ items[i].quantity \in 1..20
          /\ items[i].price > 0
          /\ items[i].menu_item_id \in CatalogIds

\* C13: every order in the store has a non-empty sequence of line items,
\* every line item has a quantity in 1..20 and a positive unit price, and
\* every line item's menu identifier is the id of a catalog item; a request
\* violating any of these is rejected, nothing being priced or stored.
C13_ItemsWellFormed ==
    [][ last'.op = "create_order" =>
          /\ ~WellFormedItems(last'.arg.items) =>
                (IsError(last'.ret) /\ orders' = orders)
          /\ \A o \in Stored(orders') : WellFormedItems(o.items) ]_vars

\* a request for 21 pieces of one item has been refused
C13_Witness ==
    /\ last.op = "create_order"
    /\ last.arg = ReqTooMany
    /\ IsError(last.ret)
    /\ orders = <<>>

\* the preparation minutes of the catalog entry with this id
PreparationOf(id) ==
    LET i == CHOOSE j \in 1..Len(menu_items) : menu_items[j].id = id
    IN  menu_items[i].preparation_minutes

\* C14: for every created order, estimated minutes = 15 + the maximum (not
\* the sum) of the preparation minutes of the catalog entries of its line
\* items + 5 * (number of line items - 1, lines and not quantities) + 25 for
\* a delivery; a single line of menu id 101 with quantity 2 gives 40 without
\* delivery and 65 with delivery.
C14_EstimatedMinutes ==
    \A o \in Stored(orders) :
        LET preps == {PreparationOf(o.items[i].menu_item_id) : i \in 1..Len(o.items)}
            longest == CHOOSE m \in preps : \A p \in preps : p <= m
        IN  /\ o.estimated_minutes =
                 15 + longest + 5 * (Len(o.items) - 1)
                 + (IF o.is_delivery THEN 25 ELSE 0)
            /\ (Len(o.items) = 1 /\ o.items[1].menu_item_id = 101
                  /\ o.items[1].quantity = 2) =>
                 o.estimated_minutes = IF o.is_delivery THEN 65 ELSE 40

\* a delivery of a drink and two pizzas on two lines: 15 + 25 + 5 + 25
C14_Witness ==
    \E o \in Stored(orders) :
        /\ o.is_delivery
        /\ Len(o.items) = 2
        /\ o.items[1].menu_item_id = 301
        /\ o.items[2].menu_item_id = 101 /\ o.items[2].quantity = 2
        /\ o.estimated_minutes = 70

Statuses == {"created", "processing", "ready", "delivered", "cancelled"}

\* C15: the service exposes an operation that changes an order's status to
\* nextStatus exactly on the legal edges, through which an order can reach
\* 'processing', 'ready' and 'delivered': for every stored order and every
\* legal edge out of its status, a call that takes the order along that
\* edge is possible.
C15_AdvanceStatusExposed ==
    \A k \in Keys(orders) : \A s \in Statuses :
        <<Get(orders, k).status, s>> \in LegalEdges =>
            ENABLED (Next /\ k \in Keys(orders') /\ Get(orders', k).status = s)

MenuAnswer(menu, category, response, filtered) ==
    LET wanted == SelectSeq(menu, LAMBDA item :
                      /\ item.available
                      /\ filtered => item.category = category.v)
        wanted_categories == {wanted[i].category : i \in 1..Len(wanted)}
    IN  /\ response.items = wanted
        /\ \A c \in wanted_categories :
              Cardinality({i \in 1..Len(response.categories) :
                              response.categories[i] = c}) = 1
        /\ \A i \in 1..Len(response.categories) :
              response.categories[i] \in wanted_categories

\* C17 as stated: getMenu(category) returns exactly the available catalog
\* items, of the given category whenever a category is passed, in catalog
\* order; the category collection holds each category of the returned items
\* exactly once and no other; neither the catalog nor the store changes.
C17_MenuAnyFilter ==
    [][ last'.op = "get_menu" =>
          /\ MenuAnswer(menu_items, last'.arg, last'.ret, ~last'.arg.none)
          /\ menu_items' = menu_items
          /\ orders' = orders ]_vars

\* C17: getMenu(category) returns exactly the available catalog items, of
\* the given category when a non-empty category is passed (an empty string
\* counts as no filter), in catalog order; the category collection holds each
\* category of the returned items exactly once and no other; neither the
\* catalog nor the order store changes.
C17_Menu ==
    [][ last'.op = "get_menu" =>
          /\ MenuAnswer(menu_items, last'.arg, last'.ret,
                        ~last'.arg.none /\ last'.arg.v # "")
          /\ menu_items' = menu_items
          /\ orders' = orders ]_vars

\* the menu asked for with an empty category while the first pizza is
\* unavailable and an order is stored: five items of four categories
C17_Witness ==
    /\ last.op = "get_menu"
    /\ last.arg = Some("")
    /\ ~menu_items[1].available
    /\ Len(last.ret.items) = 5 /\ last.ret.items[1].id = 102
    /\ Len(last.ret.categories) = 4
    /\ Len(orders) = 1

\* the name of the catalog entry with this id
CatalogName(id) ==
    LET i == CHOOSE j \in 1..Len(menu_items) : menu_items[j].id = id
    IN  menu_items[i].name

\* C18: for every line item of every stored order the denormalized name
\* equals the name of the catalog item with the same menu identifier;
\* createOrder rejects a request in which a line item's name differs from
\* the catalog name of its menu id.
C18_NamesMatchCatalog ==
    /\ (last.op = "create_order"
          /\ \E i \in 1..Len(last.arg.items) :
                /\ last.arg.items[i].menu_item_id \in CatalogIds
                /\ last.arg.items[i].name
                     # CatalogName(last.arg.items[i].menu_item_id))
       => IsError(last.ret)
    /\ \A o \in Stored(orders) : \A i \in 1..Len(o.items) :
          o.items[i].name = CatalogName(o.items[i].menu_item_id)

\* C19: in every state reachable through createOrder, cancel,
\* getOrderStatus, getOrderHistory, getMenu and processPayment, every stored
\* order's status is 'created' or 'cancelled'; 'processing', 'ready' and
\* 'delivered' are never reached, the scheduling hook called at creation
\* doing nothing.
C19_OnlyCreatedOrCancelled ==
    \A o \in Stored(orders) : o.status \in {"created", "cancelled"}

\* one order cancelled, a later one as created
C19_Witness ==
    /\ Len(orders) = 2
    /\ orders[1][2].status = "cancelled"
    /\ orders[2][2].status = "created"
    /\ last.op = "create_order"

\* C20: cancel(orderId) changes at most the status of the order stored under
\* orderId; every other order, the stored ids and their order, and the menu
\* catalog are unchanged; every order is stored under the key equal to its
\* own order_id.
C20_CancelFrame ==
    [][ /\ last'.op = "cancel_order" =>
              /\ Len(orders') = Len(orders)
              /\ \A i \in 1..Len(orders) :
                    /\ orders'[i][1] = orders[i][1]
                    /\ IF orders[i][1] = last'.arg.order_id
                       THEN [orders'[i][2] EXCEPT !.status = "any"]
                              = [orders[i][2] EXCEPT !.status = "any"]
                       ELSE orders'[i][2] = orders[i][2]
              /\ menu_items' = menu_items
        /\ \A i \in 1..Len(orders') : orders'[i][2].order_id = orders'[i][1] ]_vars

\* the second of two orders cancelled, the first left as created
C20_Witness ==
    /\ last.op = "cancel_order"
    /\ last.ret.cancelled
    /\ Len(orders) = 2
    /\ last.arg.order_id = orders[2][1]
    /\ orders[2][2].status = "cancelled"
    /\ orders[1][2].status = "created"

====
